---- MODULE Spec2Model ----
(***************************************************************************)
(* Slider synchronisation of glassine-paper-css (onSliderInput and         *)
(* bodyOnLoad), modelled over a small family of HTML documents.            *)
(*                                                                         *)
(* Element identities are strings.  The document holds two slider          *)
(* containers "s1" and "s2" (document order), at most one input per        *)
(* container ("in1", "in2"), one input "in0" outside every container, a    *)
(* datalist "dl0" outside every container, and per container at most one   *)
(* datalist ("dl1", "dl2") and one custom '.datalist' element ("cl1",      *)
(* "cl2").                                                                 *)
(*                                                                         *)
(* Numbers: JavaScript numbers are records [nan, v] with v an integer;     *)
(* the quotient written to --slider-progress is kept as an exact reduced   *)
(* fraction [num, den] (the double the code computes is the nearest double *)
(* to that fraction).  Strings are sequences of characters over digits,    *)
(* "-", "+", " " and "a": only integer numerals occur in the documents.    *)
(*                                                                         *)
(* Handlers run to completion, one at a time (the browser's event loop).   *)
(* bodyOnLoad is wired to <body onload>, so 'input' events are delivered   *)
(* only after it has run; onSliderInput may be called directly at any      *)
(* time.  A TypeError raised by a handler is recorded in lastCall.threw.   *)
(*                                                                         *)
(* The navigation handlers of the demo page (docs/sample.js) are modelled  *)
(* by a second specification, SpecNav, over the class lists of the first   *)
(* nav-drawer, nav-bar and nav-rail elements, of the four drawer buttons   *)
(* and of the items of one tab bar; they share no state with the sliders,  *)
(* which SpecNav leaves idle, as Spec leaves the navigation elements.      *)
(***************************************************************************)
EXTENDS Integers, Sequences, FiniteSets

\* ------------------------------------------------------------- bounds
\* Numeric attribute values range over MinNum..MaxNum.
MaxNum == 3
\* Every marker collection holds NumMarkers markers, at positions 0, 1, ...
NumMarkers == 3
\* bodyOnLoad runs at most MaxLoads times.
MaxLoads == 2

MinNum == 0 - 1

\* ------------------------------------------------- JavaScript values
Null == "null"

\* A string value is the sequence of its characters.
JSString(chars) == [type |-> "string", chars |-> chars]
JSNull == [type |-> "null", chars |-> <<>>]

Num(n) == [nan |-> FALSE, v |-> n]
NaN == [nan |-> TRUE, v |-> 0]

DigitChars == <<"0", "1", "2", "3", "4", "5", "6", "7", "8", "9">>
IsDigit(c) == \E k \in 1..10 : DigitChars[k] = c
DigitVal(c) == (CHOOSE k \in 1..10 : DigitChars[k] = c) - 1

RECURSIVE DigitsOf(_)
DigitsOf(n) ==
  IF n < 10 THEN <<DigitChars[n + 1]>>
  ELSE Append(DigitsOf(n \div 10), DigitChars[(n % 10) + 1])

\* The numeral an HTML attribute holds for the integer n.
Numeral(n) == JSString(IF n < 0 THEN <<"-">> \o DigitsOf(0 - n) ELSE DigitsOf(n))

RECURSIVE TrimLeft(_)
TrimLeft(s) == IF s /= <<>> /\ Head(s) = " " THEN TrimLeft(Tail(s)) ELSE s

RECURSIVE TrimRight(_)
TrimRight(s) ==
  IF s /= <<>> /\ s[Len(s)] = " " THEN TrimRight(SubSeq(s, 1, Len(s) - 1)) ELSE s

RECURSIVE DigitsValue(_, _)
DigitsValue(s, acc) ==
  IF s = <<>> THEN acc ELSE DigitsValue(Tail(s), acc * 10 + DigitVal(Head(s)))

AllDigits(s) == s /= <<>> /\ \A k \in 1..Len(s) : IsDigit(s[k])

\* StringToNumber on the strings of the model: white space is trimmed, the
\* empty string is 0, an optionally signed run of digits is its value, and
\* any other string over the model's characters is NaN.
StringToNumber(chars) ==
  LET s == TrimRight(TrimLeft(chars)) IN
  IF s = <<>> THEN Num(0)
  ELSE IF Head(s) \in {"-", "+"}
    THEN IF AllDigits(Tail(s))
           THEN Num((IF Head(s) = "-" THEN 0 - 1 ELSE 1) * DigitsValue(Tail(s), 0))
           ELSE NaN
  ELSE IF AllDigits(s) THEN Num(DigitsValue(s, 0))
  ELSE NaN

\* Number(x) for the values a DOM property or attribute can hold.
Number(x) ==
  IF x.type = "null" THEN Num(0) ELSE StringToNumber(x.chars)

\* n || 0 : NaN and 0 are falsy.  (n ?? 0 would keep NaN.)
OrZeroNullish(n) == n
OrZero(n) == IF n.nan \/ n.v = 0 THEN Num(0) ELSE n

\* a < b on JavaScript numbers: false when either is NaN.
Less(a, b) == ~a.nan /\ ~b.nan /\ a.v < b.v

\* --------------------------------------------------------- the document
Sliders == {"s1", "s2"}
\* document.getElementsByClassName('slider'), in document order
SliderOrder == <<"s1", "s2">>
InputIds == {"in0", "in1", "in2"}
ListIds == {"dl0", "dl1", "dl2", "cl1", "cl2"}

\* The input, the datalist and the custom '.datalist' a container can hold.
InputOf(s) == IF s = "s1" THEN "in1" ELSE "in2"
DatalistOf(s) == IF s = "s1" THEN "dl1" ELSE "dl2"
CustomOf(s) == IF s = "s1" THEN "cl1" ELSE "cl2"

VARIABLES
  doc,        \* the document's structure and the inputs' min/max attributes
  value,      \* value[i]: the value property of input i
  sink,       \* sink[s]: the --slider-progress property of container s
  lower,      \* lower[l]: the options of list l that carry class 'lower'
  listeners,  \* listeners[i]: 'input' listeners registered on input i
  loads,      \* how often bodyOnLoad has run
  lastCall,   \* the handler that ran last, and how it ended
  page,       \* which of the nav bar and the nav rail the page holds
  classList,  \* classList[e]: the classes of the page's navigation element e
  active,     \* the tab items that carry class 'active'
  lastNav     \* the last navigation handler run and its event

vars == <<doc, value, sink, lower, listeners, loads, lastCall,
          page, classList, active, lastNav>>
\* The variables of the navigation demo page (docs/sample.js).
NavVars == <<page, classList, active, lastNav>>
\* The variables of the sliders.
SliderVars == <<doc, value, sink, lower, listeners, loads, lastCall>>

\* The current state of everything the handlers write.
Dom == [value |-> value, sink |-> sink, lower |-> lower,
        listeners |-> listeners, threw |-> FALSE, calls |-> 0]

InputExists(d, i) == i = "in0" \/ \E s \in Sliders : d.hasInput[s] /\ InputOf(s) = i

ListExists(d, l) ==
  \/ l = "dl0"
  \/ \E s \in Sliders : \/ d.hasDatalist[s] /\ DatalistOf(s) = l
                        \/ d.hasCustom[s] /\ CustomOf(s) = l

\* e.target.closest('.slider')
Closest(t) == IF t = "in1" THEN "s1" ELSE IF t = "in2" THEN "s2" ELSE Null

\* slider.getElementsByTagName('input')[0]
FirstInput(s) == IF doc.hasInput[s] THEN InputOf(s) ELSE Null

\* baseElement.getElementsByTagName('datalist').item(0)
FirstDatalist(s) == IF doc.hasDatalist[s] THEN DatalistOf(s) ELSE Null

\* baseElement.getElementsByClassName('datalist').item(0)
FirstCustomList(s) == IF doc.hasCustom[s] THEN CustomOf(s) ELSE Null

Markers == 1..NumMarkers
IsCustom(l) == l \in {"cl1", "cl2"}

\* option.value of the k-th option of a datalist, and
\* option.getAttribute('value') of the k-th '.option' of a custom list, whose
\* first option carries no value attribute.
OptionValue(l, k) == IF IsCustom(l) /\ k = 1 THEN JSNull ELSE Numeral(k - 1)

\* ------------------------------------------------------- onSliderInput
RECURSIVE GCD(_, _)
GCD(a, b) == IF b = 0 THEN a ELSE GCD(b, a % b)

Abs(n) == IF n < 0 THEN 0 - n ELSE n

\* The quotient n / d (d > 0) in lowest terms.
Fraction(n, d) ==
  LET g == GCD(Abs(n), d) IN [num |-> n \div g, den |-> d \div g]

\* A quotient that is NaN (a NaN operand).
NaNFraction == [num |-> 0, den |-> 0]

\* max > min ? ((value - min) / (max - min)) * 100 : 0
RatioOfValueOnly(v, mn, mx) ==
  IF Less(mn, mx)
    THEN IF v.nan THEN NaNFraction ELSE Fraction(v.v * 100, mx.v - mn.v)
    ELSE Fraction(0, 1)
Ratio(v, mn, mx) ==
  IF Less(mn, mx)
    THEN IF v.nan THEN NaNFraction ELSE Fraction((v.v - mn.v) * 100, mx.v - mn.v)
    ELSE Fraction(0, 1)

\* `${ratio}%`: the text written to --slider-progress; Unset before any write.
Percent(fr) == [set |-> TRUE, num |-> fr.num, den |-> fr.den]
Unset == [set |-> FALSE, num |-> 0, den |-> 1]

\* Number(option.value) < Number(value)
IsLowerOrEqual(raw, v) == ~Less(v, Number(raw)) /\ ~v.nan /\ ~Number(raw).nan
IsLower(raw, v) == Less(Number(raw), v)

\* The for-of loop over the options: classList.add / classList.remove.
MarkOptionsAddOnly(old, l, v) ==
  old \cup {k \in Markers : IsLower(OptionValue(l, k), v)}
MarkOptionsToggle(old, l, v) ==
  LET below == {k \in Markers : IsLower(OptionValue(l, k), v)}
  IN (old \ below) \cup (below \ old)
MarkOptions(old, l, v) == {k \in Markers : IsLower(OptionValue(l, k), v)}

\* e.target.list || (baseElement ? first datalist of baseElement : null)
SliderListOfDocument(t, base) ==
  IF doc.list[t] /= Null THEN doc.list[t]
  ELSE IF base /= Null
    THEN IF doc.hasDatalist["s1"] THEN "dl1" ELSE FirstDatalist(base)
  ELSE Null
SliderList(t, base) ==
  IF doc.list[t] /= Null THEN doc.list[t]
  ELSE IF base /= Null THEN FirstDatalist(base)
  ELSE Null

\* else if (baseElement): the first '.datalist' of baseElement
SliderDataListAlways(t, base) ==
  IF base /= Null THEN FirstCustomList(base) ELSE Null
SliderDataListOfDocument(t, base) ==
  IF SliderList(t, base) = Null /\ base /= Null
    THEN IF doc.hasCustom["s1"] THEN "cl1" ELSE FirstCustomList(base)
    ELSE Null
SliderDataList(t, base) ==
  IF SliderList(t, base) = Null /\ base /= Null THEN FirstCustomList(base) ELSE Null

\* The marker collections one call for target t writes: the datalist, else
\* the custom list.
ResolvedLists(t) ==
  LET base == Closest(t) IN
  {l \in ListIds : l = SliderList(t, base) \/ l = SliderDataList(t, base)}

\* The body of onSliderInput for an element target t whose value, min and
\* max properties hold rawValue, rawMin and rawMax.
SyncWith(st, t, rawValue, rawMin, rawMax) ==
  LET v == OrZero(Number(rawValue))
      mn == OrZero(Number(rawMin))
      mx == OrZero(Number(rawMax))
      ratio == Percent(Ratio(v, mn, mx))
      base == Closest(t)
      st1 == IF base /= Null THEN [st EXCEPT !.sink[base] = ratio] ELSE st
      lists == ResolvedLists(t)
  IN [st1 EXCEPT
        !.lower = [l \in ListIds |->
                     IF l \in lists THEN MarkOptions(st.lower[l], l, v)
                     ELSE st.lower[l]],
        !.calls = @ + 1]

\* onSliderInput(e) with e.target = t.  Reading e.target.value of an
\* undefined target raises a TypeError before anything is written.
OnSliderInputWritesBack(st, t) ==
  IF st.threw THEN st
  ELSE IF t = Null THEN [st EXCEPT !.threw = TRUE]
  ELSE [SyncWith(st, t, st.value[t], doc.min[t], doc.max[t])
          EXCEPT !.value[t] = Numeral(OrZero(Number(st.value[t])).v)]
OnSliderInput(st, t) ==
  IF st.threw THEN st
  ELSE IF t = Null THEN [st EXCEPT !.threw = TRUE]
  ELSE SyncWith(st, t, st.value[t], doc.min[t], doc.max[t])

\* ---------------------------------------------------------- bodyOnLoad
\* The for-of loop over the sliders, from the k-th on.  A container without
\* an input makes input.addEventListener raise a TypeError, which ends the
\* loop and the handler.
RECURSIVE LoadFrom(_, _)
LoadFrom(st, k) ==
  IF k > Len(SliderOrder) \/ st.threw THEN st
  ELSE LET input == FirstInput(SliderOrder[k]) IN
       IF input = Null THEN [st EXCEPT !.threw = TRUE]
       ELSE LoadFrom(OnSliderInput([st EXCEPT !.listeners[input] = @ + 1], input),
                     k + 1)

\* bodyOnLoad()
BodyOnLoadRegisterOnly(st) ==
  IF \E s \in Sliders : FirstInput(s) = Null THEN [st EXCEPT !.threw = TRUE]
  ELSE [st EXCEPT !.listeners =
          [i \in InputIds |->
             IF \E s \in Sliders : FirstInput(s) = i
               THEN st.listeners[i] + 1 ELSE st.listeners[i]]]
BodyOnLoadResult(st) == LoadFrom(st, 1)

\* ------------------------------------------------------- the browser
\* An 'input' event on element i runs each listener registered on it.
RECURSIVE Dispatch(_, _, _)
Dispatch(st, i, n) == IF n = 0 THEN st ELSE Dispatch(OnSliderInput(st, i), i, n - 1)

\* The strings an attribute or a text input's value can hold.
RawValues ==
  {Numeral(n) : n \in MinNum..MaxNum}
    \cup {JSString(<<>>), JSString(<<"a">>), JSString(<<" ", "1">>)}

\* The minimum and maximum a range input takes from its attributes: 0 and
\* 100 when the attribute is absent or no number.
RangeMin(d, i) ==
  IF d.min[i].chars = <<>> \/ Number(d.min[i]).nan THEN 0 ELSE Number(d.min[i]).v
RangeMax(d, i) ==
  IF d.max[i].chars = <<>> \/ Number(d.max[i]).nan THEN 100 ELSE Number(d.max[i]).v

\* The values the value property of input i can hold: a range input keeps
\* it a number within its minimum and maximum (the minimum when they are
\* inverted); any other input holds any string.
AllowedValues(d, i) ==
  LET lo == RangeMin(d, i)
      hi == RangeMax(d, i)
  IN IF d.type[i] = "range"
       THEN {Numeral(n) : n \in
               {m \in MinNum..MaxNum :
                  IF hi < lo THEN m = lo ELSE lo <= m /\ m <= hi}}
       ELSE RawValues

\* ------------------------------------------------------- the documents
\* in2 is a range input over 1..2 and in0 one fixed at 2.
FixedMin(i) == IF i = "in2" THEN Numeral(1) ELSE Numeral(2)
FixedMax(i) == Numeral(2)

\* Documents of every structure: each container with or without an input, a
\* datalist and a custom list, each input with or without a list attribute
\* naming a datalist of the document.  s2 always holds both lists.  in1 is a
\* range input over 0..MaxNum.
StructureDocs ==
  {d \in [hasInput : [Sliders -> BOOLEAN],
          hasDatalist : {[s \in Sliders |-> s = "s2" \/ b] : b \in BOOLEAN},
          hasCustom : {[s \in Sliders |-> s = "s2" \/ b] : b \in BOOLEAN},
          list : [InputIds -> {Null, "dl0", "dl1", "dl2"}],
          type : {[i \in InputIds |-> "range"]},
          min : {[i \in InputIds |-> IF i = "in1" THEN Numeral(0) ELSE FixedMin(i)]},
          max : {[i \in InputIds |-> IF i = "in1" THEN Numeral(MaxNum) ELSE FixedMax(i)]}] :
     \A i \in InputIds :
       /\ d.list[i] /= Null => InputExists(d, i) /\ ListExists(d, d.list[i])
       /\ i = "in0" => d.list[i] \in {Null, "dl0"}
       /\ i = "in2" => d.list[i] /= "dl2"}

\* Documents of one structure (s1 holds a datalist and a custom list, s2 a
\* custom list) in which in1 is a range or a text input with any min and max.
RangeDocs ==
  {[hasInput |-> [s \in Sliders |-> TRUE],
    hasDatalist |-> [s \in Sliders |-> s = "s1"],
    hasCustom |-> [s \in Sliders |-> TRUE],
    list |-> [i \in InputIds |-> Null],
    type |-> [i \in InputIds |-> IF i = "in1" THEN ty ELSE "range"],
    min |-> [i \in InputIds |-> IF i = "in1" THEN mn ELSE FixedMin(i)],
    max |-> [i \in InputIds |-> IF i = "in1" THEN mx ELSE FixedMax(i)]]
     : ty \in {"range", "text"}, mn \in RawValues, mx \in RawValues}

Documents == StructureDocs \cup RangeDocs

\* ------------------------------------------- the demo page (docs/sample.js)
\* Tab items are the children 1..NumTabs of one tab bar.
NumTabs == 3
\* Click positions (event.clientX) range over 0..MaxX.
MaxX == 2

Tabs == 1..NumTabs

\* The page's navigation elements: the first element of class 'nav-drawer',
\* 'nav-bar' and 'nav-rail', and the four buttons, by id.
NavDrawerEl == "nav-drawer"
ShowButton == "nav-drawer-show-button"
HideButton == "nav-drawer-hide-button"
ModalButton == "nav-drawer-modal-button"
FixButton == "nav-drawer-fix-button"
NavBarEl == "nav-bar"
NavRailEl == "nav-rail"
Buttons == {ShowButton, HideButton, ModalButton, FixButton}
NavElements == {NavDrawerEl, NavBarEl, NavRailEl} \cup Buttons

\* A click lands on the drawer element itself or on an item inside it.
NavItemEl == "nav-item"
ClickTargets == {NavDrawerEl, NavItemEl}
\* event.target.classList.contains('nav-drawer')
HasNavDrawerClass(e) == e = NavDrawerEl
\* event.target.getBoundingClientRect().right
RightEdge(e) == MaxX - 1

\* navDrawerHide() called without an argument, and the click events.
NoEvent == [present |-> FALSE, target |-> Null, clientX |-> 0]
ClickEvents == [present : {TRUE}, target : ClickTargets, clientX : 0..MaxX]

\* classList.add / classList.remove
Add(cl, e, c) == [cl EXCEPT ![e] = @ \cup {c}]
Remove(cl, e, c) == [cl EXCEPT ![e] = @ \ {c}]

\* toggleNavBarNavRail()
ToggleNavBarNavRailBarOnly(cl) ==
  IF page.hasNavBar /\ page.hasNavRail
    THEN IF "hidden" \in cl[NavBarEl]
           THEN Remove(cl, NavBarEl, "hidden")
           ELSE Add(cl, NavBarEl, "hidden")
    ELSE cl
ToggleNavBarNavRail(cl) ==
  IF page.hasNavBar /\ page.hasNavRail
    THEN IF "hidden" \in cl[NavBarEl]
           THEN Add(Remove(cl, NavBarEl, "hidden"), NavRailEl, "hidden")
           ELSE Remove(Add(cl, NavBarEl, "hidden"), NavRailEl, "hidden")
    ELSE cl

\* navDrawerModal()
NavDrawerModalKeepsButtons(cl) ==
  IF "modal" \notin cl[NavDrawerEl] THEN Add(cl, NavDrawerEl, "modal") ELSE cl
NavDrawerModal(cl) ==
  LET c1 == IF "modal" \notin cl[NavDrawerEl]
              THEN Add(cl, NavDrawerEl, "modal") ELSE cl
  IN Remove(Add(c1, ModalButton, "hidden"), FixButton, "hidden")

\* navDrawerFix()
NavDrawerFix(cl) ==
  LET c1 == IF "modal" \in cl[NavDrawerEl]
              THEN Remove(cl, NavDrawerEl, "modal") ELSE cl
  IN Add(Remove(c1, ModalButton, "hidden"), FixButton, "hidden")

\* navDrawerShow()
NavDrawerShowKeepsHideButton(cl) ==
  LET c1 == IF "hidden" \in cl[NavDrawerEl]
              THEN NavDrawerModal(Remove(cl, NavDrawerEl, "hidden")) ELSE cl
  IN Add(c1, ShowButton, "hidden")
NavDrawerShow(cl) ==
  LET c1 == IF "hidden" \in cl[NavDrawerEl]
              THEN NavDrawerModal(Remove(cl, NavDrawerEl, "hidden")) ELSE cl
  IN Remove(Add(c1, ShowButton, "hidden"), HideButton, "hidden")

\* navDrawerHide(event)
NavDrawerHideInsideToo(cl, event) ==
  IF event.present /\ ~HasNavDrawerClass(event.target) THEN cl
  ELSE LET c1 == IF "hidden" \notin cl[NavDrawerEl]
                   THEN Add(cl, NavDrawerEl, "hidden") ELSE cl
       IN Add(Remove(c1, ShowButton, "hidden"), HideButton, "hidden")
NavDrawerHide(cl, event) ==
  IF event.present /\ ~HasNavDrawerClass(event.target) THEN cl
  ELSE IF event.present /\ event.clientX < RightEdge(event.target) THEN cl
  ELSE LET c1 == IF "hidden" \notin cl[NavDrawerEl]
                   THEN Add(cl, NavDrawerEl, "hidden") ELSE cl
       IN Add(Remove(c1, ShowButton, "hidden"), HideButton, "hidden")

\* tabItemOnClick(event) with event.currentTarget the tab item k
TabItemOnClickAddOnly(act, k) == act \cup {k}
TabItemOnClick(act, k) == {x \in act : x \notin Tabs} \cup {k}

NoNav == [op |-> "none", event |-> NoEvent, tab |-> 0]

\* The demo page as served: drawer closed, navigation bar shown.
PageAsServed ==
  /\ page = [hasNavBar |-> TRUE, hasNavRail |-> TRUE]
  /\ classList = [e \in NavElements |->
                    IF e = NavDrawerEl THEN {"hidden", "modal"}
                    ELSE IF e \in {HideButton, ModalButton, NavRailEl}
                      THEN {"hidden"} ELSE {}]
  /\ active = {1}
  /\ lastNav = NoNav

NoCall == [op |-> "none", target |-> Null, threw |-> FALSE, calls |-> 0]

Init ==
  /\ doc \in Documents
  /\ value \in {f \in [InputIds -> RawValues \cup {JSNull}] :
                  \A i \in InputIds :
                    IF InputExists(doc, i) THEN f[i] \in AllowedValues(doc, i)
                    ELSE f[i] = JSNull}
  /\ sink = [s \in Sliders |-> Unset]
  /\ lower = [l \in ListIds |-> {}]
  /\ listeners = [i \in InputIds |-> 0]
  /\ loads = 0
  /\ lastCall = NoCall
  /\ PageAsServed

\* ------------------------------------------------------------- actions
Commit(st, op, t) ==
  /\ value' = st.value
  /\ sink' = st.sink
  /\ lower' = st.lower
  /\ listeners' = st.listeners
  /\ lastCall' = [op |-> op, target |-> t, threw |-> st.threw, calls |-> st.calls]
  /\ UNCHANGED <<doc, NavVars>>

\* The load event: bodyOnLoad().
BodyOnLoad ==
  /\ loads < MaxLoads
  /\ loads' = loads + 1
  /\ Commit(BodyOnLoadResult(Dom), "load", Null)

\* The user moves input i to v, once the document has loaded; the browser
\* dispatches 'input' to i.
InputEvent(i, v) ==
  /\ loads > 0
  /\ InputExists(doc, i)
  /\ v /= value[i]
  /\ Commit(Dispatch([Dom EXCEPT !.value[i] = v], i, listeners[i]), "input", i)
  /\ UNCHANGED loads

\* A direct call onSliderInput({ target: t }).
ManualCall(t) ==
  /\ t = Null \/ InputExists(doc, t)
  /\ Commit(OnSliderInput(Dom, t), "call", t)
  /\ UNCHANGED loads

Next ==
  \/ BodyOnLoad
  \/ \E i \in InputIds : \E v \in AllowedValues(doc, i) : InputEvent(i, v)
  \/ \E t \in InputIds \cup {Null} : ManualCall(t)

Spec == Init /\ [][Next]_vars

\* ------------------------------------------- the demo page: specification
\* The sliders of a page on which only navigation handlers run.
SlidersIdle ==
  /\ doc = CHOOSE d \in RangeDocs : d.type["in1"] = "range"
  /\ value = [i \in InputIds |->
                IF InputExists(doc, i)
                  THEN CHOOSE v \in AllowedValues(doc, i) : TRUE
                  ELSE JSNull]
  /\ sink = [s \in Sliders |-> Unset]
  /\ lower = [l \in ListIds |-> {}]
  /\ listeners = [i \in InputIds |-> 0]
  /\ loads = 0
  /\ lastCall = NoCall

\* Any markup of the navigation elements: the drawer with or without
\* 'hidden' and 'modal', every button, the bar and the rail with or without
\* 'hidden', any tab items active.
InitNav ==
  /\ page \in [hasNavBar : BOOLEAN, hasNavRail : BOOLEAN]
  /\ classList \in {f \in [NavElements -> SUBSET {"hidden", "modal"}] :
                      /\ \A e \in NavElements \ {NavDrawerEl} : "modal" \notin f[e]
                      /\ ~page.hasNavBar => f[NavBarEl] = {}
                      /\ ~page.hasNavRail => f[NavRailEl] = {}}
  /\ active \in SUBSET Tabs
  /\ lastNav = NoNav
  /\ SlidersIdle

\* The handler op ran for event; it writes class lists only.
Stamp(op, event) ==
  /\ lastNav' = [op |-> op, event |-> event, tab |-> 0]
  /\ UNCHANGED <<page, active, SliderVars>>

ToggleBarRail ==
  /\ classList' = ToggleNavBarNavRail(classList)
  /\ Stamp("toggleNavBarNavRail", NoEvent)

Show ==
  /\ classList' = NavDrawerShow(classList)
  /\ Stamp("navDrawerShow", NoEvent)

Hide(event) ==
  /\ classList' = NavDrawerHide(classList, event)
  /\ Stamp("navDrawerHide", event)

Modal ==
  /\ classList' = NavDrawerModal(classList)
  /\ Stamp("navDrawerModal", NoEvent)

Fix ==
  /\ classList' = NavDrawerFix(classList)
  /\ Stamp("navDrawerFix", NoEvent)

\* A click on tab item k.
TabClick(k) ==
  /\ active' = TabItemOnClick(active, k)
  /\ lastNav' = [op |-> "tabItemOnClick", event |-> NoEvent, tab |-> k]
  /\ UNCHANGED <<page, classList, SliderVars>>

NextNav ==
  \/ ToggleBarRail
  \/ Show
  \/ \E event \in ClickEvents \cup {NoEvent} : Hide(event)
  \/ Modal
  \/ Fix
  \/ \E k \in Tabs : TabClick(k)

SpecNav == InitNav /\ [][NextNav]_vars

\* ------------------------------------------------- what the claims state
\* A field coerced to a number: a non-numeric or missing value counts as 0.
Coerced(raw) == LET n == Number(raw) IN IF n.nan THEN 0 ELSE n.v
Current(t) == Coerced(value[t])
MinOf(t) == Coerced(doc.min[t])
MaxOf(t) == Coerced(doc.max[t])
Position(l, k) == Coerced(OptionValue(l, k))

\* The text sk is the percentage n / d.
SinkIs(sk, n, d) == sk.set /\ sk.den > 0 /\ sk.num * d = n * sk.den

\* The text sk is the progress of current c between mn and mx.
ProgressIs(sk, c, mn, mx) ==
  IF mx > mn THEN SinkIs(sk, (c - mn) * 100, mx - mn) ELSE SinkIs(sk, 0, 1)

\* The marker collection of target t: the list associated with the control,
\* else the datalist inside its container, else the custom list inside it.
ExpectedList(t) ==
  LET s == Closest(t) IN
  IF doc.list[t] /= Null THEN doc.list[t]
  ELSE IF s = Null THEN Null
  ELSE IF doc.hasDatalist[s] THEN DatalistOf(s)
  ELSE IF doc.hasCustom[s] THEN CustomOf(s)
  ELSE Null

\* The flags of list l are those of current value c.
FlagsMatch(l, c) == \A k \in Markers : (k \in lower[l]) <=> (Position(l, k) < c)

\* The last handler was onSliderInput for an element, run to its end: a
\* direct call, or an 'input' event with a listener registered.
Synced ==
  \/ lastCall.op = "call" /\ lastCall.target /= Null
  \/ lastCall.op = "input" /\ lastCall.calls > 0

\* C1: after onSliderInput for a slider, every marker of the resolved
\* collection carries 'lower' iff its position is strictly less than the
\* current value; a marker at the current value is not flagged.
C1_MarkersBelowCurrent ==
  Synced /\ ExpectedList(lastCall.target) /= Null
    => FlagsMatch(ExpectedList(lastCall.target), Current(lastCall.target))

C1_Witness ==
  /\ Synced
  /\ ExpectedList(lastCall.target) /= Null
  /\ \E k \in Markers :
       /\ Position(ExpectedList(lastCall.target), k) = Current(lastCall.target)
       /\ k \notin lower[ExpectedList(lastCall.target)]
  /\ lower[ExpectedList(lastCall.target)] /= {}

\* C2: the progress written to the sink is within [0%, 100%] when max > min
\* and exactly 0% when max <= min; never negative, above 100% or undefined.
C2_ProgressWithinBounds ==
  Synced /\ Closest(lastCall.target) /= Null
    => LET sk == sink[Closest(lastCall.target)] IN
       /\ sk.set
       /\ sk.den > 0
       /\ IF MaxOf(lastCall.target) > MinOf(lastCall.target)
            THEN 0 <= sk.num /\ sk.num <= 100 * sk.den
            ELSE sk.num = 0

\* C3: onSliderInput and bodyOnLoad never throw, whatever element is absent.
\* (When the target is absent the call does leave every sink and flag as it
\* was; it is the exception that the code does not avoid.)
C3_NeverThrows == ~lastCall.threw

\* C4: with max > min the text written to the sink is
\* (current - min) / (max - min) * 100 followed by '%'; with max <= min it
\* is '0%'.
C4_ProgressFormula ==
  Synced /\ Closest(lastCall.target) /= Null
    => ProgressIs(sink[Closest(lastCall.target)], Current(lastCall.target),
                  MinOf(lastCall.target), MaxOf(lastCall.target))

C4_Witness ==
  /\ Synced
  /\ Closest(lastCall.target) /= Null
  /\ MaxOf(lastCall.target) > MinOf(lastCall.target)
  /\ MinOf(lastCall.target) /= 0
  /\ sink[Closest(lastCall.target)].den > 1

\* C5: onSliderInput called again for the same slider, with value, min, max
\* and markers unchanged, leaves the sink and every marker flag as the first
\* call left them.
C5_Idempotent ==
  Synced
    => LET again == OnSliderInput(Dom, lastCall.target) IN
       again.sink = sink /\ again.lower = lower /\ ~again.threw

C5_Witness ==
  /\ Synced
  /\ Closest(lastCall.target) /= Null
  /\ sink[Closest(lastCall.target)].set
  /\ ExpectedList(lastCall.target) /= Null
  /\ lower[ExpectedList(lastCall.target)] \notin {{}, Markers}

\* After the step, the flags of list l are those of t's current value, and
\* the sink of t's container is the progress of t.
FlagsMatchAfter(l, t) ==
  \A k \in Markers : (k \in lower'[l]) <=> (Position(l, k) < Coerced(value'[t]))
ProgressIsAfter(t) ==
  ProgressIs(sink'[Closest(t)], Coerced(value'[t]), MinOf(t), MaxOf(t))

\* C6: onSliderInput writes the flags of one marker collection, the first
\* that exists of: the list associated with the control, the datalist inside
\* the container, the custom list inside the container.  Every other
\* collection (the custom list when a native list exists) keeps its flags;
\* when a slider has none, no flag changes and its sink is still written.
C6_ResolutionOrder ==
  [][Synced' =>
       LET t == lastCall'.target
           e == ExpectedList(t)
       IN /\ \A l \in ListIds : l /= e => lower'[l] = lower[l]
          /\ e /= Null => FlagsMatchAfter(e, t)
          /\ e = Null /\ Closest(t) /= Null => ProgressIsAfter(t)
    ]_vars

C6_Witness ==
  /\ Synced
  /\ doc.list[lastCall.target] = Null
  /\ Closest(lastCall.target) /= Null
  /\ doc.hasDatalist[Closest(lastCall.target)]
  /\ doc.hasCustom[Closest(lastCall.target)]
  /\ lower[DatalistOf(Closest(lastCall.target))] /= {}
  /\ lower[CustomOf(Closest(lastCall.target))] = {}

\* The control of t has no native list (none associated with it, none inside
\* its container) and its container holds a custom list.
FallsBackToCustom(t) ==
  /\ doc.list[t] = Null
  /\ Closest(t) /= Null
  /\ ~doc.hasDatalist[Closest(t)]
  /\ doc.hasCustom[Closest(t)]

\* C7: when the control has no native marker list and its container holds a
\* custom list, onSliderInput sets the flags of that container's custom list
\* and changes no flag of any other collection.
C7_FallbackToOwnCustomList ==
  [][Synced' /\ FallsBackToCustom(lastCall'.target) =>
       LET t == lastCall'.target
           own == CustomOf(Closest(t))
       IN /\ FlagsMatchAfter(own, t)
          /\ \A l \in ListIds : l /= own => lower'[l] = lower[l]
    ]_vars

C7_Witness ==
  /\ Synced
  /\ FallsBackToCustom(lastCall.target)
  /\ lower[CustomOf(Closest(lastCall.target))] /= {}
  /\ \E b \in Sliders :
       /\ b /= Closest(lastCall.target)
       /\ doc.hasCustom[b]
       /\ lower[CustomOf(b)] = {}

\* The marker collections of slider b: the lists inside its container and
\* the list associated with its control.
ListsOfSlider(b) ==
  {l \in ListIds :
     \/ doc.hasDatalist[b] /\ l = DatalistOf(b)
     \/ doc.hasCustom[b] /\ l = CustomOf(b)
     \/ doc.hasInput[b] /\ l = doc.list[InputOf(b)]}

\* C8 as stated: onSliderInput for slider A leaves the sink and every marker
\* flag of any other slider B unchanged, whichever way A's list is resolved.
C8_OtherSliderUntouched ==
  [][Synced' /\ Closest(lastCall'.target) /= Null =>
       \A b \in Sliders \ {Closest(lastCall'.target)} :
         /\ sink'[b] = sink[b]
         /\ \A l \in ListsOfSlider(b) : lower'[l] = lower[l]
    ]_vars

\* C8 as amended: onSliderInput for slider A leaves the sink of any other
\* slider B unchanged, and changes a flag of B's marker collections only in
\* the one collection A's call resolves, and only when that is a datalist the
\* two sliders share through a list attribute (of A's or of B's control).
C8_OtherSliderUntouchedUnlessShared ==
  [][Synced' /\ Closest(lastCall'.target) /= Null =>
       \A b \in Sliders \ {Closest(lastCall'.target)} :
         /\ sink'[b] = sink[b]
         /\ \A l \in ListsOfSlider(b) :
              lower'[l] /= lower[l] =>
                /\ l = ExpectedList(lastCall'.target)
                /\ \/ doc.list[lastCall'.target] = l
                   \/ doc.hasInput[b] /\ doc.list[InputOf(b)] = l
    ]_vars

C8_Witness ==
  /\ Synced
  /\ Closest(lastCall.target) /= Null
  /\ doc.list[lastCall.target] /= Null
  /\ lower[doc.list[lastCall.target]] /= {}
  /\ \E b \in Sliders \ {Closest(lastCall.target)} :
       /\ sink[b].set
       /\ \E l \in ListsOfSlider(b) :
            l /= doc.list[lastCall.target] /\ lower[l] /= {}

\* A field that is no number: NaN under Number(), or missing (empty).
NonNumeric(raw) == Number(raw).nan \/ raw.chars = <<>>

\* onSliderInput for t with the named field read as "0".
SyncWithZero(t, field) ==
  SyncWith(Dom, t,
           IF field = "value" THEN Numeral(0) ELSE value[t],
           IF field = "min" THEN Numeral(0) ELSE doc.min[t],
           IF field = "max" THEN Numeral(0) ELSE doc.max[t])

FieldOf(t, field) ==
  IF field = "value" THEN value[t]
  ELSE IF field = "min" THEN doc.min[t]
  ELSE doc.max[t]

LoadedNormally == lastCall.op = "load" /\ ~lastCall.threw

\* Once bodyOnLoad has returned, an 'input' event on a slider's control runs
\* onSliderInput for it.  (With an input in every container bodyOnLoad returns.)
EventsRunSync ==
  /\ LoadedNormally => \A s \in Sliders : listeners[InputOf(s)] >= 1
  /\ lastCall.op = "input" /\ Closest(lastCall.target) /= Null
       /\ (\A s \in Sliders : doc.hasInput[s])
     => lastCall.calls >= 1 /\ lastCall.calls = listeners[lastCall.target]

\* C10 as stated: when bodyOnLoad returns, the sink and the marker flags of
\* every slider match its control's current value, and every later 'input'
\* event on the control runs onSliderInput for it.
C10_LoadSyncsEverySlider ==
  /\ LoadedNormally =>
       \A s \in Sliders :
         /\ ProgressIs(sink[s], Current(InputOf(s)), MinOf(InputOf(s)),
                       MaxOf(InputOf(s)))
         /\ ExpectedList(InputOf(s)) /= Null
              => FlagsMatch(ExpectedList(InputOf(s)), Current(InputOf(s)))
  /\ EventsRunSync

\* The control of the last slider, in document order, whose marker
\* collection is l.
LastResolver(l) ==
  LET ks == {k \in 1..Len(SliderOrder) : ExpectedList(InputOf(SliderOrder[k])) = l}
  IN InputOf(SliderOrder[CHOOSE k \in ks : \A j \in ks : j <= k])

\* C10 as amended: when bodyOnLoad returns, the sink of every slider matches
\* its control's current value, the flags of every slider's marker
\* collection match the current value of the last slider in document order
\* that resolves to that collection, and every later 'input' event on the
\* control runs onSliderInput for it.
C10_LoadSyncsLastResolver ==
  /\ LoadedNormally =>
       \A s \in Sliders :
         /\ ProgressIs(sink[s], Current(InputOf(s)), MinOf(InputOf(s)),
                       MaxOf(InputOf(s)))
         /\ ExpectedList(InputOf(s)) /= Null
              => FlagsMatch(ExpectedList(InputOf(s)),
                            Current(LastResolver(ExpectedList(InputOf(s)))))
  /\ EventsRunSync

C10_Witness ==
  /\ LoadedNormally
  /\ ExpectedList("in1") /= Null
  /\ ExpectedList("in1") = ExpectedList("in2")
  /\ Current("in1") /= Current("in2")
  /\ lower[ExpectedList("in1")] /= {}
  /\ sink["s1"].set /\ sink["s2"].set

\* C11: when a slider container holds no input, bodyOnLoad skips that
\* container only: no exception leaves the handler, and every slider that
\* does hold an input, before or after it in the document, has its listener
\* registered and its sink written.
C11_LoadSkipsSliderWithoutInput ==
  lastCall.op = "load"
    => /\ ~lastCall.threw
       /\ \A s \in Sliders :
            doc.hasInput[s] => listeners[InputOf(s)] >= 1 /\ sink[s].set

\* The document with no sink written and no marker flagged.
Fresh == [Dom EXCEPT !.sink = [s \in Sliders |-> Unset],
                     !.lower = [l \in ListIds |-> {}]]

\* C15: after any sequence of 'input' events on one slider, each running
\* onSliderInput, the sink of the slider and the flags of its marker
\* collection are those one onSliderInput call with the last value alone
\* produces on a fresh document: no flag of an earlier value remains.
C15_LastValueWins ==
  lastCall.op = "input" /\ lastCall.calls > 0
    => LET t == lastCall.target
           one == OnSliderInput(Fresh, t)
       IN /\ Closest(t) /= Null => sink[Closest(t)] = one.sink[Closest(t)]
          /\ \A l \in ListIds : l = ExpectedList(t) => lower[l] = one.lower[l]

\* An event took a range control from a flagged position down to 0.
C15_Witness ==
  /\ lastCall.op = "input" /\ lastCall.calls > 0
  /\ doc.type[lastCall.target] = "range"
  /\ Closest(lastCall.target) /= Null
  /\ ExpectedList(lastCall.target) /= Null
  /\ Current(lastCall.target) = 0
  /\ lower[ExpectedList(lastCall.target)] = {}

\* C16: after bodyOnLoad has been called n times every slider control holds
\* n 'input' listeners, so one 'input' event on it runs onSliderInput n
\* times; the sink and the flags are then those of a single call.
C16_RepeatedLoadsRegisterEach ==
  /\ lastCall.op = "load"
       => \A s \in Sliders : doc.hasInput[s] => listeners[InputOf(s)] = loads
  /\ lastCall.op = "input" /\ Closest(lastCall.target) /= Null
       => LET t == lastCall.target
              one == OnSliderInput(Fresh, t)
          IN /\ lastCall.calls = loads
             /\ sink[Closest(t)] = one.sink[Closest(t)]
             /\ \A l \in ListIds : l = ExpectedList(t) => lower[l] = one.lower[l]

\* C17: onSliderInput for target t changes nothing but the sink of t's
\* slider and the 'lower' flags of the collection it resolves: the value,
\* min and max of every control, the markers and their positions (the
\* document), the listeners, every other sink and the flags of every other
\* collection are as before.  (In an 'input' step the value of the target
\* is the one the browser has just set.)
C17_SyncFrame ==
  [][LET t == lastCall'.target IN
     (lastCall'.op = "call" /\ t /= Null) \/ lastCall'.op = "input"
       => /\ doc' = doc
          /\ listeners' = listeners
          /\ \A i \in InputIds : i /= t \/ lastCall'.op = "call"
               => value'[i] = value[i]
          /\ \A s \in Sliders : s /= Closest(t) => sink'[s] = sink[s]
          /\ \A l \in ListIds : l /= ExpectedList(t) => lower'[l] = lower[l]
    ]_vars

\* A direct call for a control whose value is not numeric wrote its sink
\* and its flags, next to another slider synchronized before.
C17_Witness ==
  /\ lastCall.op = "call" /\ lastCall.target /= Null
  /\ Number(value[lastCall.target]).nan
  /\ Closest(lastCall.target) /= Null
  /\ sink[Closest(lastCall.target)].set
  /\ ExpectedList(lastCall.target) /= Null
  /\ \E s \in Sliders : s /= Closest(lastCall.target) /\ sink[s].set
  /\ \E l \in ListIds : l /= ExpectedList(lastCall.target) /\ lower[l] /= {}

\* C12: after navDrawerShow, from any state of the drawer (hidden or
\* visible, modal or fixed), the drawer does not carry 'hidden' and carries
\* 'modal'.
C12_ShowMakesVisibleModal ==
  lastNav.op = "navDrawerShow"
    => "hidden" \notin classList[NavDrawerEl] /\ "modal" \in classList[NavDrawerEl]

\* Element e carries class 'hidden' before, and after, the step.
Hidden(e) == "hidden" \in classList[e]
HiddenAfter(e) == "hidden" \in classList'[e]

\* C13: toggleNavBarNavRail with both the bar and the rail on the page
\* hides the bar and shows the rail when the bar is visible, and shows the
\* bar and hides the rail when the bar is hidden, so that after a toggle
\* exactly one of the two is hidden; with either of them absent it changes
\* no class.
C13_ToggleBarRail ==
  [][lastNav'.op = "toggleNavBarNavRail"
       => IF page.hasNavBar /\ page.hasNavRail
            THEN /\ HiddenAfter(NavBarEl) <=> ~Hidden(NavBarEl)
                 /\ HiddenAfter(NavRailEl) <=> Hidden(NavBarEl)
                 /\ HiddenAfter(NavBarEl) /= HiddenAfter(NavRailEl)
                 /\ \A e \in NavElements \ {NavBarEl, NavRailEl} :
                      classList'[e] = classList[e]
            ELSE classList' = classList
    ]_vars

\* A toggle has hidden the bar and shown the rail.
C13_Witness ==
  /\ lastNav.op = "toggleNavBarNavRail"
  /\ page.hasNavBar /\ page.hasNavRail
  /\ Hidden(NavBarEl) /\ ~Hidden(NavRailEl)

\* C14: after a click on a tab item that item carries 'active' and no other
\* child of the tab bar does: exactly one tab is active, the one clicked
\* last.
C14_ClickedTabOnlyActive ==
  lastNav.op = "tabItemOnClick"
    => /\ lastNav.tab \in active
       /\ \A k \in Tabs : k /= lastNav.tab => k \notin active
       /\ Cardinality(active) = 1

\* The last tab item was clicked and is the active one.
C14_Witness ==
  /\ lastNav.op = "tabItemOnClick"
  /\ lastNav.tab = NumTabs
  /\ active = {NumTabs}

\* C18: navDrawerHide called with a click event hides the drawer only when
\* the click target is the nav-drawer element itself and clientX is at or
\* beyond the right edge of the target; otherwise it returns and leaves the
\* classes of the drawer and of the show and hide buttons as they were.
\* Called without an event it always hides the drawer.
C18_HideOnlyOutsideClick ==
  [][lastNav'.op = "navDrawerHide"
       => LET event == lastNav'.event IN
          IF \/ ~event.present
             \/ /\ event.target = NavDrawerEl
                /\ event.clientX >= RightEdge(event.target)
            THEN /\ HiddenAfter(NavDrawerEl)
                 /\ ~HiddenAfter(ShowButton)
                 /\ HiddenAfter(HideButton)
            ELSE /\ classList'[NavDrawerEl] = classList[NavDrawerEl]
                 /\ classList'[ShowButton] = classList[ShowButton]
                 /\ classList'[HideButton] = classList[HideButton]
    ]_vars

\* A click on the drawer element exactly at its right edge has hidden it.
C18_Witness ==
  /\ lastNav.op = "navDrawerHide"
  /\ lastNav.event.present
  /\ lastNav.event.target = NavDrawerEl
  /\ lastNav.event.clientX = RightEdge(NavDrawerEl)
  /\ Hidden(NavDrawerEl) /\ Hidden(HideButton) /\ ~Hidden(ShowButton)

\* The four drawer handlers.
DrawerOps == {"navDrawerShow", "navDrawerHide", "navDrawerModal", "navDrawerFix"}

\* The show button is hidden exactly when the drawer is visible; the hide
\* button is hidden exactly when the drawer is hidden.
ShowButtonFollows == Hidden(ShowButton) <=> ~Hidden(NavDrawerEl)
HideButtonFollows == Hidden(HideButton) <=> Hidden(NavDrawerEl)
ShowButtonFollowsAfter == HiddenAfter(ShowButton) <=> ~HiddenAfter(NavDrawerEl)
HideButtonFollowsAfter == HiddenAfter(HideButton) <=> HiddenAfter(NavDrawerEl)

\* C19 as stated: from a state where the show button is hidden exactly when
\* the drawer is visible, every drawer handler (navDrawerShow, navDrawerHide
\* with or without an event, navDrawerModal, navDrawerFix) leads to a state
\* where the show button is hidden iff the drawer is not hidden and the
\* hide button is hidden iff the drawer is hidden.
C19_ShowHideButtonsFollow ==
  [][lastNav'.op \in DrawerOps /\ ShowButtonFollows
       => ShowButtonFollowsAfter /\ HideButtonFollowsAfter]_vars

\* C19 as amended: the same from a state where, in addition, the hide
\* button is hidden exactly when the drawer is hidden.
C19_ShowHideButtonsStayFollowing ==
  [][lastNav'.op \in DrawerOps /\ ShowButtonFollows /\ HideButtonFollows
       => ShowButtonFollowsAfter /\ HideButtonFollowsAfter]_vars

\* A click outside the drawer has hidden it, and both buttons follow.
C19_Witness ==
  /\ lastNav.op = "navDrawerHide" /\ lastNav.event.present
  /\ lastNav.event.clientX > RightEdge(NavDrawerEl)
  /\ Hidden(NavDrawerEl)
  /\ ShowButtonFollows /\ HideButtonFollows

\* The modal button is hidden exactly when the drawer is modal; the fix
\* button is hidden exactly when it is not.
IsModal == "modal" \in classList[NavDrawerEl]
IsModalAfter == "modal" \in classList'[NavDrawerEl]
ModalButtonFollows == Hidden(ModalButton) <=> IsModal
FixButtonFollows == Hidden(FixButton) <=> ~IsModal
ModalButtonFollowsAfter == HiddenAfter(ModalButton) <=> IsModalAfter
FixButtonFollowsAfter == HiddenAfter(FixButton) <=> ~IsModalAfter

\* C20 as stated: from a state where the modal button is hidden exactly
\* when the drawer carries 'modal', every drawer handler leads to a state
\* where the modal button is hidden iff the drawer carries 'modal' and the
\* fix button is hidden iff it does not.
C20_ModalFixButtonsFollow ==
  [][lastNav'.op \in DrawerOps /\ ModalButtonFollows
       => ModalButtonFollowsAfter /\ FixButtonFollowsAfter]_vars

\* C20 as amended: the same from a state where, in addition, the fix button
\* is hidden exactly when the drawer does not carry 'modal'.
C20_ModalFixButtonsStayFollowing ==
  [][lastNav'.op \in DrawerOps /\ ModalButtonFollows /\ FixButtonFollows
       => ModalButtonFollowsAfter /\ FixButtonFollowsAfter]_vars

\* navDrawerShow has opened the drawer in modal mode, and both buttons
\* follow.
C20_Witness ==
  /\ lastNav.op = "navDrawerShow"
  /\ ~Hidden(NavDrawerEl) /\ IsModal
  /\ ModalButtonFollows /\ FixButtonFollows

====
